---- MODULE Spec2Model ----
(***************************************************************************)
(* Model of package datatable (martinohmann/godog-helpers).                *)
(*                                                                         *)
(* A DataTable holds two Go slices, fields []string and rows [][]string.   *)
(* A Go slice is a header (pointer, length, capacity) over a backing       *)
(* array, so the model keeps the backing arrays in two heaps and the       *)
(* tables hold headers into them.  Every slice of the package starts at    *)
(* offset 0 of its array, so a header is (arr, len) and its capacity is    *)
(* the length of the array.  Indices of the Go API are 0-based; the        *)
(* sequences of the model are 1-based.                                     *)
(***************************************************************************)
EXTENDS Integers, Sequences, FiniteSets, TLC

VARIABLES
    strHeap,   \* backing arrays of []string values (fields and row cells)
    rowHeap,   \* backing arrays of [][]string values (elements are headers)
    tbl,       \* the *DataTable values the caller owns, by slot
    held,      \* the slice the caller last got from Fields() or RowValues()
    call,      \* the last call: operation and arguments
    ret        \* what the last call returned

vars == <<strHeap, rowHeap, tbl, held, call, ret>>

----------------------------------------------------------------------------
(* Bounds of the model. *)

MaxRows == 2        \* AppendRow is not called on a table of this many rows
MaxWrites == 1      \* writes the caller makes through the slices it holds
MaxCtorLen == 2     \* longest field list, schema list and row list in SpecCtor

(* Alphabets. *)
Names == {"a", "b", "c"}       \* field names given to the constructors
OptNames == {"a", "b"}         \* names the schema lists may hold
Cells == {"x", "y"}            \* cell values

RECURSIVE SeqsUpTo(_, _)
SeqsUpTo(S, n) ==
    IF n = 0 THEN {<<>>}
    ELSE LET shorter == SeqsUpTo(S, n - 1)
         IN shorter \cup {Append(s, x) : s \in {q \in shorter : Len(q) = n - 1}, x \in S}

Range(s) == {s[i] : i \in 1..Len(s)}

----------------------------------------------------------------------------
(* Go slices. *)

NilSlice == [arr |-> 0, len |-> 0]

CapOf(heap, s) == IF s.arr = 0 THEN 0 ELSE Len(heap[s.arr])

\* the []string a header denotes
StrVal(sh, s) == [i \in 1..s.len |-> sh[s.arr][i]]

\* the [][]string a header denotes
RowsVal(sh, rh, s) == [i \in 1..s.len |-> StrVal(sh, rh[s.arr][i])]

\* a []string literal: a fresh array, len = cap
AllocStr(sh, v) ==
    IF Len(v) = 0 THEN [heap |-> sh, s |-> NilSlice]
    ELSE [heap |-> Append(sh, v), s |-> [arr |-> Len(sh) + 1, len |-> Len(v)]]

\* a [][]string literal whose elements are fresh []string literals
RECURSIVE AllocRows(_, _, _)
AllocRows(sh, hdrs, rows) ==
    IF rows = <<>> THEN [heap |-> sh, hdrs |-> hdrs]
    ELSE LET a == AllocStr(sh, Head(rows))
         IN AllocRows(a.heap, Append(hdrs, a.s), Tail(rows))

\* a fresh [][]string array holding the given headers, len = cap
AllocRowArr(rh, hdrs) ==
    IF Len(hdrs) = 0 THEN [heap |-> rh, s |-> NilSlice]
    ELSE [heap |-> Append(rh, hdrs), s |-> [arr |-> Len(rh) + 1, len |-> Len(hdrs)]]

\* capacity the runtime gives a [][]string that append has to grow
GrowCap(oldCap, needed) == IF needed > 2 * oldCap THEN needed ELSE 2 * oldCap

\* append(s, elems...) on a [][]string: in place when the capacity suffices
\* (the slots past the new length keep what they held), a fresh array otherwise
GoAppend(rh, s, elems) ==
    LET n == s.len + Len(elems)
        old == IF s.arr = 0 THEN <<>> ELSE rh[s.arr]
    IN IF n <= CapOf(rh, s)
       THEN [heap |-> IF s.arr = 0 THEN rh
                      ELSE [rh EXCEPT ![s.arr] =
                               [j \in 1..Len(old) |->
                                   IF j > s.len /\ j <= n THEN elems[j - s.len] ELSE old[j]]],
             s |-> [arr |-> s.arr, len |-> n]]
       ELSE [heap |-> Append(rh, [j \in 1..GrowCap(CapOf(rh, s), n) |->
                                      IF j <= s.len THEN old[j]
                                      ELSE IF j <= n THEN elems[j - s.len]
                                      ELSE NilSlice]),
             s |-> [arr |-> Len(rh) + 1, len |-> n]]

----------------------------------------------------------------------------
(* Options and the pure parts of construction. *)

NilOptions == [present |-> FALSE, OptionalFields |-> <<>>, RequiredFields |-> <<>>]

Options(opt, req) == [present |-> TRUE, OptionalFields |-> opt, RequiredFields |-> req]

NoError == "nil"

RECURSIVE contains(_, _)
contains(haystack, needle) ==
    IF haystack = <<>> THEN FALSE
    ELSE IF Head(haystack) = needle THEN TRUE
    ELSE contains(Tail(haystack), needle)

RECURSIVE missingRequired(_, _)
missingRequired(required, fields) ==
    IF required = <<>> THEN FALSE
    ELSE IF ~contains(fields, Head(required)) THEN TRUE
    ELSE missingRequired(Tail(required), fields)

RECURSIVE additionalField(_, _)
additionalField(fields, allowedFields) ==
    IF fields = <<>> THEN FALSE
    ELSE IF ~contains(allowedFields, Head(fields)) THEN TRUE
    ELSE additionalField(Tail(fields), allowedFields)

validateFieldsLax(options, fields) ==
    IF ~options.present THEN NoError
    ELSE IF missingRequired(options.RequiredFields, fields) THEN "missing required field"
    ELSE IF additionalField(fields, options.OptionalFields \o options.RequiredFields)
         THEN "additional field"
    ELSE NoError

validateFields(options, fields) ==
    IF ~options.present THEN NoError
    ELSE IF missingRequired(options.RequiredFields, fields) THEN "missing required field"
    ELSE IF Len(options.OptionalFields) = 0 THEN NoError
    ELSE IF additionalField(fields, options.OptionalFields \o options.RequiredFields)
         THEN "additional field"
    ELSE NoError

RECURSIVE rowLengthError(_, _)
rowLengthError(rows, n) ==
    IF rows = <<>> THEN FALSE
    ELSE IF Len(Head(rows)) # n THEN TRUE
    ELSE rowLengthError(Tail(rows), n)

\* the error NewWithOptions returns
NewWithOptionsErr(options, fields, rows) ==
    IF rowLengthError(rows, Len(fields)) THEN "row length"
    ELSE validateFields(options, fields)

----------------------------------------------------------------------------
(* gherkin.DataTable: Rows of TableRow, each with Cells of TableCell. *)

GCell(v) == [Value |-> v]

GRow(vs) == [Cells |-> [i \in 1..Len(vs) |-> GCell(vs[i])]]

values(row) == [i \in 1..Len(row.Cells) |-> row.Cells[i].Value]

rowValues(rows) == [i \in 1..Len(rows) |-> values(rows[i])]

----------------------------------------------------------------------------
(* State. *)

\* the caller's two table variables: t (slot 1), which a constructor sets,
\* and c (slot 2), which c = t.Copy() or c = c.Copy() sets
Slots == {1, 2}

NoTable == [live |-> FALSE, fields |-> NilSlice, rows |-> NilSlice,
            options |-> NilOptions, ctorFields |-> <<>>]

\* writes counts the writes the caller has made through held slices
NoHeld == [kind |-> "none", tbl |-> 0, s |-> NilSlice, writes |-> 0]

Call(op, k) == [op |-> op, tbl |-> k, options |-> NilOptions, fields |-> <<>>,
                rows |-> <<>>, gtable |-> [Rows |-> <<>>], row |-> <<>>, index |-> 0]

Ret == [err |-> NoError, panic |-> FALSE, out |-> 0, maps |-> <<>>]

\* the caller is between two calls
Idle == call.op = "none"

Init ==
    /\ strHeap = <<>>
    /\ rowHeap = <<>>
    /\ tbl = [k \in Slots |-> NoTable]
    /\ held = NoHeld
    /\ call = Call("none", 0)
    /\ ret = Ret

\* what a table reports: Fields(), RowValues(), Len() and its options
View(sh, rh, t) ==
    [fields |-> StrVal(sh, t.fields),
     rows |-> RowsVal(sh, rh, t.rows),
     len |-> t.rows.len,
     options |-> t.options]

----------------------------------------------------------------------------
(* Garbage collection.  An array no header reaches is gone, and the arrays  *)
(* left are numbered in the order a walk from t, c and the held slice meets *)
(* them, so that two heaps of the same shape are the same state.  A slot of *)
(* a row array past the longest header over the array is read by no         *)
(* operation before append overwrites it, and is cleared.                   *)

RECURSIVE FirstSeen(_, _)
FirstSeen(seq, acc) ==
    IF seq = <<>> THEN acc
    ELSE IF Head(seq) = 0 \/ Head(seq) \in Range(acc) THEN FirstSeen(Tail(seq), acc)
    ELSE FirstSeen(Tail(seq), Append(acc, Head(seq)))

Pos(order, a) == IF a = 0 THEN 0 ELSE CHOOSE i \in 1..Len(order) : order[i] = a

Collect(sh, rh, tb, hd) ==
    LET heldRows == IF hd.kind = "rows" THEN hd.s ELSE NilSlice
        heldFields == IF hd.kind = "fields" THEN hd.s ELSE NilSlice
        rowHdrs == <<tb[1].rows, tb[2].rows, heldRows>>
        reach(a) == LET ls == {rowHdrs[i].len : i \in {j \in 1..3 : rowHdrs[j].arr = a}}
                    IN CHOOSE m \in ls : \A x \in ls : x <= m
        slots(a) == IF a = 0 THEN <<>>
                    ELSE [j \in 1..Len(rh[a]) |-> IF j <= reach(a) THEN rh[a][j] ELSE NilSlice]
        arrs(a) == [j \in 1..Len(slots(a)) |-> slots(a)[j].arr]
        rowOrder == FirstSeen(<<tb[1].rows.arr, tb[2].rows.arr, heldRows.arr>>, <<>>)
        strOrder == FirstSeen(<<tb[1].fields.arr>> \o arrs(tb[1].rows.arr)
                              \o <<tb[2].fields.arr>> \o arrs(tb[2].rows.arr)
                              \o <<heldFields.arr>> \o arrs(heldRows.arr), <<>>)
        str(h) == [arr |-> Pos(strOrder, h.arr), len |-> h.len]
        row(h) == [arr |-> Pos(rowOrder, h.arr), len |-> h.len]
    IN [sh |-> [i \in 1..Len(strOrder) |-> sh[strOrder[i]]],
        rh |-> [i \in 1..Len(rowOrder) |->
                   [j \in 1..Len(rh[rowOrder[i]]) |-> str(slots(rowOrder[i])[j])]],
        tbl |-> [k \in Slots |-> [tb[k] EXCEPT !.fields = str(@), !.rows = row(@)]],
        held |-> [hd EXCEPT !.s = IF hd.kind = "rows" THEN row(@) ELSE str(@)]]

\* the next state holds what is left of the given heaps, tables and held slice
Store(sh, rh, tb, hd) ==
    LET g == Collect(sh, rh, tb, hd)
    IN /\ strHeap' = g.sh
       /\ rowHeap' = g.rh
       /\ tbl' = g.tbl
       /\ held' = g.held

----------------------------------------------------------------------------
(* Constructors.  The table built is the caller's t. *)

\* the body of NewWithOptions, entered by all four constructors
\* the caller constructs a table when no call is in progress and it holds none
Fresh == Idle /\ ~tbl[1].live

Construct(c, options, fields, rows) ==
    /\ call' = c
    /\ LET e == NewWithOptionsErr(options, fields, rows)
       IN IF e # NoError
          THEN /\ ret' = [Ret EXCEPT !.err = e]
               /\ UNCHANGED <<strHeap, rowHeap, tbl, held>>
          ELSE LET f == AllocStr(strHeap, fields)
                   r == AllocRows(f.heap, <<>>, rows)
                   o == AllocRowArr(rowHeap, r.hdrs)
               IN /\ ret' = Ret
                  /\ Store(r.heap, o.heap,
                           [tbl EXCEPT ![1] =
                               [live |-> TRUE, fields |-> f.s, rows |-> o.s,
                                options |-> options, ctorFields |-> fields]],
                           held)

New(fields, rows) ==
    /\ Fresh
    /\ Construct([Call("New", 1) EXCEPT !.fields = fields, !.rows = rows],
                 NilOptions, fields, rows)

NewWithOptions(options, fields, rows) ==
    /\ Fresh
    /\ Construct([Call("NewWithOptions", 1) EXCEPT
                     !.options = options, !.fields = fields, !.rows = rows],
                 options, fields, rows)

MalformedTableEmpty(dt) == Len(dt.Rows) < 1

\* the table FromGherkinWithOptions refuses
MalformedTable(dt) == Len(dt.Rows) < 2

\* the body of FromGherkinWithOptions
FromTable(c, options, dt) ==
    IF MalformedTable(dt)
    THEN /\ call' = c
         /\ ret' = [Ret EXCEPT !.err = "at least two rows"]
         /\ UNCHANGED <<strHeap, rowHeap, tbl, held>>
    ELSE Construct(c, options, values(dt.Rows[1]), rowValues(Tail(dt.Rows)))

FromGherkin(dt) ==
    /\ Fresh
    /\ FromTable([Call("FromGherkin", 1) EXCEPT !.gtable = dt], NilOptions, dt)

FromGherkinWithOptions(options, dt) ==
    /\ Fresh
    /\ FromTable([Call("FromGherkinWithOptions", 1) EXCEPT
                     !.options = options, !.gtable = dt],
                 options, dt)

\* the caller drops every table and slice it holds
Discard ==
    /\ Idle
    /\ tbl[1].live
    /\ strHeap' = <<>>
    /\ rowHeap' = <<>>
    /\ tbl' = [k \in Slots |-> NoTable]
    /\ held' = NoHeld
    /\ call' = Call("none", 0)
    /\ ret' = Ret

----------------------------------------------------------------------------
(* Copy.  copier.Copy(&c.fields, &t.fields) is given two values of the same *)
(* slice type.  What it stores depends on the release of the copier         *)
(* library the build links: releases that assign an assignable value store  *)
(* the source's slice header in the destination (both tables then use the   *)
(* same arrays, and the arrays made for c are dropped); releases that copy  *)
(* a slice element by element fill the arrays made for c, so c.rows is a    *)
(* fresh array of the source's row headers.  Neither copies the cells of a  *)
(* row, and Copy itself leaves c.options nil.                               *)

CopierReleases == {"assign", "elementwise"}

CopyTable(sh, rh, t, release) ==
    IF release = "assign"
    THEN [sh |-> sh, rh |-> rh,
          t |-> [live |-> TRUE, fields |-> t.fields, rows |-> t.rows,
                 options |-> NilOptions, ctorFields |-> StrVal(sh, t.fields)]]
    ELSE LET f == AllocStr(sh, StrVal(sh, t.fields))
             r == AllocRowArr(rh, [i \in 1..t.rows.len |-> rh[t.rows.arr][i]])
         IN [sh |-> f.heap, rh |-> r.heap,
             t |-> [live |-> TRUE, fields |-> f.s, rows |-> r.s,
                    options |-> NilOptions, ctorFields |-> StrVal(sh, t.fields)]]

\* c = t.Copy() (k = 1) or c = c.Copy() (k = 2)
Copy(k, release) ==
    /\ Idle
    /\ tbl[k].live
    /\ call' = Call("Copy", k)
    /\ ret' = [Ret EXCEPT !.out = 2]
    /\ LET c == CopyTable(strHeap, rowHeap, tbl[k], release)
       IN Store(c.sh, c.rh, [tbl EXCEPT ![2] = c.t], held)

----------------------------------------------------------------------------
(* FindRow. *)

\* matchValues(a, b): "true", "false", or "panic" when b[i] is out of range
RECURSIVE matchFrom(_, _, _)
matchFrom(a, b, i) ==
    IF i > Len(a) THEN "true"
    ELSE IF i > Len(b) THEN "panic"
    ELSE IF b[i] # a[i] THEN "false"
    ELSE matchFrom(a, b, i + 1)

matchValues(a, b) == matchFrom(a, b, 1)

RECURSIVE findFrom(_, _, _)
findFrom(rows, row, i) ==
    IF i > Len(rows) THEN [panic |-> FALSE, out |-> -1]
    ELSE LET m == matchValues(rows[i], row)
         IN IF m = "panic" THEN [panic |-> TRUE, out |-> 0]
            ELSE IF m = "true" THEN [panic |-> FALSE, out |-> i - 1]
            ELSE findFrom(rows, row, i + 1)

\* the outcome of t.FindRow(row) on a table whose rows have the given values
FindRowOf(rows, row) == findFrom(rows, row, 1)

FindRow(k, row) ==
    /\ Idle
    /\ tbl[k].live
    /\ call' = [Call("FindRow", k) EXCEPT !.row = row]
    /\ LET r == FindRowOf(RowsVal(strHeap, rowHeap, tbl[k].rows), row)
       IN ret' = [Ret EXCEPT !.panic = r.panic, !.out = r.out]
    /\ UNCHANGED <<strHeap, rowHeap, tbl, held>>

----------------------------------------------------------------------------
(* RemoveRow. *)

RemoveRowPanicsPastCap(len, cap, index) == ~(0 <= index /\ index <= cap)

\* t.rows[:index] needs 0 <= index <= cap; t.rows[index+1:] needs
\* 0 <= index+1 <= len.  Both are evaluated before t.rows is assigned.
RemoveRowPanics(len, cap, index) ==
    \/ ~(0 <= index /\ index <= cap)
    \/ ~(0 <= index + 1 /\ index + 1 <= len)

RemoveRowOffByOne(rh, s, index) ==
    GoAppend(rh, [arr |-> s.arr, len |-> index],
             SubSeq(IF s.arr = 0 THEN <<>> ELSE rh[s.arr], index + 1, s.len))

\* append(t.rows[:index], t.rows[index+1:]...)
RemoveRowResult(rh, s, index) ==
    GoAppend(rh, [arr |-> s.arr, len |-> index],
             SubSeq(IF s.arr = 0 THEN <<>> ELSE rh[s.arr], index + 2, s.len))

RemoveRow(k, index) ==
    /\ Idle
    /\ tbl[k].live
    /\ call' = [Call("RemoveRow", k) EXCEPT !.index = index]
    /\ IF RemoveRowPanics(tbl[k].rows.len, CapOf(rowHeap, tbl[k].rows), index)
       THEN /\ ret' = [Ret EXCEPT !.panic = TRUE]
            /\ UNCHANGED <<strHeap, rowHeap, tbl, held>>
       ELSE LET a == RemoveRowResult(rowHeap, tbl[k].rows, index)
            IN /\ ret' = Ret
               /\ Store(strHeap, a.heap, [tbl EXCEPT ![k].rows = a.s], held)

----------------------------------------------------------------------------
(* AppendRow. *)

AppendRowErrShort(nfields, row) ==
    IF Len(row) < nfields THEN "row length" ELSE NoError

AppendRowErr(nfields, row) ==
    IF Len(row) # nfields THEN "row length" ELSE NoError

AppendRowFront(rh, s, hdr) ==
    LET a == GoAppend(rh, s, <<hdr>>)
    IN [heap |-> [a.heap EXCEPT ![a.s.arr] =
                     [j \in 1..Len(a.heap[a.s.arr]) |->
                         IF j = 1 THEN hdr
                         ELSE IF j <= a.s.len THEN a.heap[a.s.arr][j - 1]
                         ELSE a.heap[a.s.arr][j]]],
        s |-> a.s]

\* append(t.rows, row)
AppendRowResult(rh, s, hdr) == GoAppend(rh, s, <<hdr>>)

AppendRow(k, row) ==
    /\ Idle
    /\ tbl[k].live
    /\ tbl[k].rows.len < MaxRows
    /\ call' = [Call("AppendRow", k) EXCEPT !.row = row]
    /\ LET e == AppendRowErr(tbl[k].fields.len, row)
       IN IF e # NoError
          THEN /\ ret' = [Ret EXCEPT !.err = e]
               /\ UNCHANGED <<strHeap, rowHeap, tbl, held>>
          ELSE LET r == AllocStr(strHeap, row)
                   a == AppendRowResult(rowHeap, tbl[k].rows, r.s)
               IN /\ ret' = Ret
                  /\ Store(r.heap, a.heap, [tbl EXCEPT ![k].rows = a.s], held)

----------------------------------------------------------------------------
(* Accessors.  keep says whether the caller keeps the slice it is given. *)

LenOp(k) ==
    /\ Idle
    /\ tbl[k].live
    /\ call' = Call("Len", k)
    /\ ret' = [Ret EXCEPT !.out = tbl[k].rows.len]
    /\ UNCHANGED <<strHeap, rowHeap, tbl, held>>

Fields(k, keep) ==
    /\ Idle
    /\ tbl[k].live
    /\ call' = Call("Fields", k)
    /\ ret' = Ret
    /\ Store(strHeap, rowHeap, tbl,
             IF keep THEN [held EXCEPT !.kind = "fields", !.tbl = k, !.s = tbl[k].fields]
             ELSE held)

RowValues(k, keep) ==
    /\ Idle
    /\ tbl[k].live
    /\ call' = Call("RowValues", k)
    /\ ret' = Ret
    /\ Store(strHeap, rowHeap, tbl,
             IF keep THEN [held EXCEPT !.kind = "rows", !.tbl = k, !.s = tbl[k].rows]
             ELSE held)

\* the map Rows() builds for one row: m[field] = row[j] for j in order, so
\* the last column of a name wins
RowMap(fields, row) ==
    [f \in Range(fields) |->
        row[CHOOSE j \in 1..Len(fields) :
               fields[j] = f /\ \A i \in 1..Len(fields) : fields[i] = f => i <= j]]

Rows(k) ==
    /\ Idle
    /\ tbl[k].live
    /\ call' = Call("Rows", k)
    /\ LET f == StrVal(strHeap, tbl[k].fields)
           rs == RowsVal(strHeap, rowHeap, tbl[k].rows)
       IN IF \E i \in 1..Len(rs) : Len(rs[i]) < Len(f)
          THEN ret' = [Ret EXCEPT !.panic = TRUE]
          ELSE ret' = [Ret EXCEPT !.maps = [i \in 1..Len(rs) |-> RowMap(f, rs[i])]]
    /\ UNCHANGED <<strHeap, rowHeap, tbl, held>>

----------------------------------------------------------------------------
(* The caller writes through the slice an accessor returned. *)

Written == [held EXCEPT !.writes = @ + 1]

\* f := t.Fields(); f[i] = v
CallerSetField(i, v) ==
    /\ Idle
    /\ held.writes < MaxWrites
    /\ held.kind = "fields"
    /\ i \in 1..held.s.len
    /\ call' = [Call("f[i] = v", held.tbl) EXCEPT !.index = i - 1, !.row = <<v>>]
    /\ ret' = Ret
    /\ Store([strHeap EXCEPT ![held.s.arr][i] = v], rowHeap, tbl, Written)

\* r := t.RowValues(); r[i][j] = v
CallerSetCell(i, j, v) ==
    /\ Idle
    /\ held.writes < MaxWrites
    /\ held.kind = "rows"
    /\ i \in 1..held.s.len
    /\ j \in 1..rowHeap[held.s.arr][i].len
    /\ call' = [Call("r[i][j] = v", held.tbl) EXCEPT !.index = i - 1, !.row = <<v>>]
    /\ ret' = Ret
    /\ Store([strHeap EXCEPT ![rowHeap[held.s.arr][i].arr][j] = v], rowHeap, tbl, Written)

\* r := t.RowValues(); r[i] = nil
CallerSetRow(i) ==
    /\ Idle
    /\ held.writes < MaxWrites
    /\ held.kind = "rows"
    /\ i \in 1..held.s.len
    /\ call' = [Call("r[i] = nil", held.tbl) EXCEPT !.index = i - 1]
    /\ ret' = Ret
    /\ Store(strHeap, [rowHeap EXCEPT ![held.s.arr][i] = NilSlice], tbl, Written)

----------------------------------------------------------------------------
(* The caller takes the result of a call and goes on. *)

Return ==
    /\ ~Idle
    /\ call' = Call("none", 0)
    /\ ret' = Ret
    /\ UNCHANGED <<strHeap, rowHeap, tbl, held>>

----------------------------------------------------------------------------
(* Spec: the life of a table under the API. *)

LifeFieldLists == {<<"a">>, <<"a", "b">>}

\* rows given to the constructors, AppendRow and FindRow: shorter, as long
\* and longer than the field lists
LifeRows == {<<>>, <<"x">>, <<"y">>, <<"x", "x">>, <<"x", "y">>, <<"x", "y", "x">>}

LifeRowLists == {<<>>} \cup {<<r>> : r \in LifeRows}

LifeOptions == {NilOptions, Options(<<>>, <<"b">>)}

LifeTables ==
    {[Rows |-> [i \in 1..Len(g) |-> GRow(g[i])]] :
        g \in {<<>>, <<<<"a">>>>, <<<<"a">>, <<"x">>>>, <<<<"a", "b">>, <<"x", "y">>>>,
               <<<<"a", "b">>, <<"x">>>>, <<<<"a">>, <<"x">>, <<"y">>>>}}

Indices == -1..(MaxRows + 2)

Constructors ==
    \/ \E f \in LifeFieldLists, rs \in LifeRowLists : New(f, rs)
    \/ \E o \in LifeOptions, f \in LifeFieldLists, rs \in LifeRowLists :
          NewWithOptions(o, f, rs)
    \/ \E dt \in LifeTables : FromGherkin(dt)
    \/ \E o \in LifeOptions, dt \in LifeTables : FromGherkinWithOptions(o, dt)
    \/ Discard

Operations ==
    \/ \E k \in Slots, r \in CopierReleases : Copy(k, r)
    \/ \E k \in Slots, row \in LifeRows : FindRow(k, row)
    \/ \E k \in Slots, i \in Indices : RemoveRow(k, i)
    \/ \E k \in Slots, row \in LifeRows : AppendRow(k, row)
    \/ \E k \in Slots : LenOp(k)
    \/ \E k \in Slots : Rows(k)
    \/ Return

Next ==
    \/ Constructors
    \/ Operations
    \/ \E k \in Slots : Fields(k, FALSE)
    \/ \E k \in Slots : RowValues(k, FALSE)

Spec == Init /\ [][Next]_vars

----------------------------------------------------------------------------
(* SpecCaller: a caller that keeps the slices t.Fields() and t.RowValues()  *)
(* return and writes through them, with a copy c of t beside it.            *)

CallerFieldLists == {<<"a", "b">>}

CallerRows == {<<"x">>, <<"x", "x">>, <<"x", "y">>}

CallerRowLists == {<<>>, <<<<"x", "x">>>>}

CallerWrites ==
    \/ \E i \in 1..MaxRows, v \in {"a", "b"} : CallerSetField(i, v)
    \/ \E i \in 1..MaxRows, j \in 1..MaxRows, v \in Cells : CallerSetCell(i, j, v)
    \/ \E i \in 1..MaxRows : CallerSetRow(i)

NextCaller ==
    \/ \E f \in CallerFieldLists, rs \in CallerRowLists : New(f, rs)
    \/ Discard
    \/ \E r \in CopierReleases : Copy(1, r)
    \/ \E k \in Slots, i \in -1..MaxRows : RemoveRow(k, i)
    \/ \E k \in Slots, row \in CallerRows : AppendRow(k, row)
    \/ Fields(1, TRUE)
    \/ RowValues(1, TRUE)
    \/ CallerWrites
    \/ Return

SpecCaller == Init /\ [][NextCaller]_vars

----------------------------------------------------------------------------
(* SpecCtor: the constructors on every input within the bounds. *)

CtorFieldLists == SeqsUpTo(Names, MaxCtorLen)

CtorOptions ==
    {NilOptions} \cup
    {Options(o, r) : o \in SeqsUpTo(OptNames, MaxCtorLen), r \in SeqsUpTo(OptNames, MaxCtorLen)}

\* rows of every width a field list may have; their cells do not matter
CtorRows == {[i \in 1..n |-> "x"] : n \in 0..MaxCtorLen}

CtorRowLists == SeqsUpTo(CtorRows, MaxCtorLen)

GherkinOptions == {Options(<<"b">>, <<"a">>), Options(<<>>, <<"b">>)}

GherkinTables ==
    {[Rows |-> [i \in 1..Len(g) |-> GRow(g[i])]] :
        g \in SeqsUpTo(SeqsUpTo(OptNames, MaxCtorLen), MaxCtorLen + 1)}

\* the guard of the constructors stands before their arguments, so that
\* arguments are drawn only where a constructor can be called
NextCtor ==
    \/ Fresh /\ \E f \in CtorFieldLists, rs \in CtorRowLists : New(f, rs)
    \/ Fresh /\ \E o \in CtorOptions, f \in CtorFieldLists, rs \in CtorRowLists :
                    NewWithOptions(o, f, rs)
    \/ Fresh /\ \E dt \in GherkinTables : FromGherkin(dt)
    \/ Fresh /\ \E o \in GherkinOptions, dt \in GherkinTables :
                    FromGherkinWithOptions(o, dt)
    \/ Discard
    \/ Return

SpecCtor == Init /\ [][NextCtor]_vars

----------------------------------------------------------------------------
(* Properties. *)

Pre(k) == View(strHeap, rowHeap, tbl[k])

Post(k) == View(strHeap', rowHeap', tbl'[k])

Min(a, b) == IF a <= b THEN a ELSE b

\* C1: every row a table stores has exactly len(fields) cells, and fields
\* is the sequence the table was built with
RowsMatchFields ==
    \A k \in Slots :
        tbl[k].live =>
            /\ \A i \in 1..tbl[k].rows.len :
                  rowHeap[tbl[k].rows.arr][i].len = tbl[k].fields.len
            /\ StrVal(strHeap, tbl[k].fields) = tbl[k].ctorFields

\* a table and its copy, both with rows, after a row was removed
RowsMatchFieldsWitness ==
    /\ call.op = "RemoveRow"
    /\ ~ret.panic
    /\ tbl[2].live
    /\ tbl[1].rows.len >= 1
    /\ tbl[2].rows.len >= 1

\* what the contract of NewWithOptions asks of its arguments
CtorOk(options, fields, rows) ==
    /\ \A i \in 1..Len(rows) : Len(rows[i]) = Len(fields)
    /\ options.present =>
          /\ Range(options.RequiredFields) \subseteq Range(fields)
          /\ options.OptionalFields # <<>> =>
                Range(fields) \subseteq
                    Range(options.OptionalFields) \cup Range(options.RequiredFields)

\* C2: NewWithOptions returns a table exactly when every row has len(fields)
\* cells and, with a schema, every required field is present and (optional
\* fields given) every field is optional or required; otherwise it returns
\* an error and no table
NewWithOptionsContract ==
    call.op \in {"New", "NewWithOptions"} =>
        IF CtorOk(call.options, call.fields, call.rows)
        THEN ret.err = NoError /\ tbl[1].live
        ELSE ret.err # NoError /\ ~tbl[1].live

\* a closed schema with required and optional names accepted, with rows
NewWithOptionsWitness ==
    /\ call.op = "NewWithOptions"
    /\ call.options.present
    /\ call.options.OptionalFields # <<>>
    /\ call.options.RequiredFields # <<>>
    /\ Len(call.fields) >= 2
    /\ Len(call.rows) >= 1
    /\ tbl[1].live

\* the header row and the data rows of an external table
GherkinHeader(g) == [j \in 1..Len(g[1].Cells) |-> g[1].Cells[j].Value]

GherkinData(g) ==
    [i \in 1..(Len(g) - 1) |-> [j \in 1..Len(g[i + 1].Cells) |-> g[i + 1].Cells[j].Value]]

\* C3: FromGherkin(WithOptions) fails on a table of fewer than two rows;
\* otherwise it returns what NewWithOptions returns for the header row as
\* fields and the other rows as data, and on success Fields() is the header
\* row and RowValues() are the data rows in their order
FromGherkinContract ==
    call.op \in {"FromGherkin", "FromGherkinWithOptions"} =>
        LET g == call.gtable.Rows
        IN IF Len(g) < 2
           THEN ret.err # NoError /\ ~tbl[1].live
           ELSE /\ ret.err = NewWithOptionsErr(call.options, GherkinHeader(g), GherkinData(g))
                /\ tbl[1].live <=> CtorOk(call.options, GherkinHeader(g), GherkinData(g))
                /\ tbl[1].live =>
                      /\ ret.err = NoError
                      /\ Pre(1).fields = GherkinHeader(g)
                      /\ Pre(1).rows = GherkinData(g)

\* a table of a header and two different data rows accepted under a schema
FromGherkinWitness ==
    /\ call.op = "FromGherkinWithOptions"
    /\ tbl[1].live
    /\ Len(call.gtable.Rows) = 3
    /\ call.gtable.Rows[2] # call.gtable.Rows[3]
    /\ Len(call.gtable.Rows[1].Cells) = 2

\* the row FindRow is said to find: the first that agrees with the
\* candidate at every position below the shorter length
PrefixMatch(r, cand) == \A j \in 1..Min(Len(r), Len(cand)) : r[j] = cand[j]

FirstPrefixMatch(rows, cand) ==
    LET hits == {i \in 1..Len(rows) : PrefixMatch(rows[i], cand)}
    IN IF hits = {} THEN -1 ELSE (CHOOSE i \in hits : \A h \in hits : i <= h) - 1

\* C4: for a candidate of any length FindRow never fails and returns the
\* index of the first row that agrees with it below the shorter length,
\* or -1
FindRowPrefixMatch ==
    call.op = "FindRow" =>
        /\ ~ret.panic
        /\ ret.out = FirstPrefixMatch(Pre(call.tbl).rows, call.row)

AppendRowAppends ==
    [][call'.op = "AppendRow" =>
          LET k == call'.tbl
              row == call'.row
          IN IF Len(row) # Len(Pre(k).fields)
             THEN ret'.err # NoError /\ Post(k) = Pre(k)
             ELSE /\ ret'.err = NoError
                  /\ Post(k).fields = Pre(k).fields
                  /\ Post(k).rows = Append(Pre(k).rows, row)
                  /\ Post(k).len = Pre(k).len + 1
                  /\ (\A i \in 1..Pre(k).len : Pre(k).rows[i] # row)
                        => FindRowOf(Post(k).rows, row) =
                              [panic |-> FALSE, out |-> Post(k).len - 1]]_vars

\* a second, different row was appended
AppendRowWitness ==
    /\ call.op = "AppendRow"
    /\ ret.err = NoError
    /\ Pre(call.tbl).len = 2
    /\ Pre(call.tbl).rows[1] # Pre(call.tbl).rows[2]

\* the calls that change a table: AppendRow, RemoveRow and the caller's
\* writes through a slice of the table
Mutators == {"AppendRow", "RemoveRow", "f[i] = v", "r[i][j] = v", "r[i] = nil"}

\* C7: after c = t.Copy() no AppendRow, RemoveRow or in-place change of a
\* cell or field of one table changes what the other table reports
CopyIsIndependent ==
    [][call'.op \in Mutators =>
          \A k \in Slots : (k # call'.tbl /\ tbl[k].live) => Post(k) = Pre(k)]_vars

\* C8: Copy returns a table deeply equal to its source: the same fields,
\* rows and schema options
CopyIsDeepEqual ==
    [][call'.op = "Copy" => Post(2) = Pre(call'.tbl)]_vars

\* C9: RemoveRow(index) with index outside [0, Len()) fails with a bounds
\* failure and leaves rows, fields and Len() of every table as they were
RemoveRowOutOfRange ==
    [][(call'.op = "RemoveRow"
        /\ (call'.index < 0 \/ call'.index >= Pre(call'.tbl).len)) =>
          /\ ret'.panic
          /\ \A k \in Slots : Post(k) = Pre(k)]_vars

\* an index past the length but within the capacity was refused
RemoveRowOutOfRangeWitness ==
    /\ call.op = "RemoveRow"
    /\ ret.panic
    /\ call.index > tbl[call.tbl].rows.len
    /\ call.index <= CapOf(rowHeap, tbl[call.tbl].rows)

\* the slice the caller holds, as it reads now
HeldNow == IF held.kind = "fields" THEN StrVal(strHeap, held.s)
           ELSE RowsVal(strHeap, rowHeap, held.s)

HeldNext == IF held'.kind = "fields" THEN StrVal(strHeap', held'.s)
            ELSE RowsVal(strHeap', rowHeap', held'.s)

\* C10: a write to a slice Fields() or RowValues() returned changes nothing
\* the table reports, and a later AppendRow or RemoveRow on the table
\* changes nothing in a slice returned earlier
AccessorsDoNotAlias ==
    [][/\ call'.op \in {"f[i] = v", "r[i][j] = v", "r[i] = nil"} =>
             \A k \in Slots : Post(k) = Pre(k)
       /\ (call'.op \in {"AppendRow", "RemoveRow"} /\ held.kind # "none"
           /\ held.tbl = call'.tbl) => HeldNext = HeldNow]_vars

====
